---------------------------- MODULE Spec2Model ----------------------------
(***************************************************************************)
(* Incremental YAML localisation scripts of johnson-abraham/ai-localize.   *)
(*                                                                         *)
(* Four generations of the synchroniser are modelled:                      *)
(*   "state"  src/unnamed/part_001, lines 189-471 (translation_state.json) *)
(*   "before" src/unnamed/part_002 (GITHUB_SHA_BEFORE, compare-on-write)   *)
(*   "delta"  src/.github/scripts/copy_yaml.js, lines 1-332 (as "before",  *)
(*            without the treatment of a locale that has no file yet)      *)
(*   "flat"   src/.github/scripts/copy_yaml.js, lines 333-541 (flatten)    *)
(*                                                                         *)
(* A JavaScript value is a tagged record.  An object key and a flat key    *)
(* path are sequences of one-character strings, so that joining with "."   *)
(* and String.split(".") are real operations and not each other's inverse  *)
(* by construction.  Keys are assumed not to be array indices, "length" or *)
(* names found on Object.prototype.                                        *)
(***************************************************************************)
EXTENDS Integers, Sequences, FiniteSets, TLC

VARIABLES
    fn,      \* pure-function harness: the function that was applied
    arg1,    \* its first argument  (current / target / d)
    arg2,    \* its second argument (previous / source)
    out      \* what it returned

pureVars == <<fn, arg1, arg2, out>>

VARIABLES
    env,                \* process.env: which required values are set
    variant,            \* which script runs: "state", "before", "delta" or "flat"
    repo,               \* content of the source file at each commit, oldest first
    before,             \* GITHUB_SHA_BEFORE: a commit of repo, 0 when there is none
    stateFile,          \* translation_state.json
    files               \* generated/<folder>/global.yaml of each locale

envVars == <<env, variant, repo, before, stateFile, files>>

VARIABLES
    pc,                 \* where main() stands
    why,                \* what ended the run
    li,                 \* index into LOCALE_CONFIGS of the locale in hand
    previousCommitSha,  \* the revision the previous snapshot is asked for
    isFirstRun,
    currentStrings,     \* currentEnglishStrings / currentSourceObj
    previousStrings,    \* previousEnglishStrings / previousSourceObj
    delta,              \* stringsToTranslate of part_001 (computed once)
    isNew,              \* the locale has no target file
    strings,            \* the flat map whose keys the locale's loop walks
    ki,                 \* index of the loop's next key
    final,              \* finalLocaleStrings
    newFlat,            \* newFlatLocale
    hasChanges,         \* hasChangesForThisLocale
    anyModified         \* anyFileWasModified / overallHasActualChanges

mainVars == <<pc, why, li, previousCommitSha, isFirstRun, currentStrings, previousStrings,
              delta, isNew, strings, ki, final, newFlat, hasChanges, anyModified>>

VARIABLES
    run,                \* number of the run
    calls,              \* this run's requests to the translation capability
    faults,             \* capability answers so far that were not the usual one
    written,            \* locales whose target file this run wrote
    stateWritten,       \* this run wrote translation_state.json
    processed,          \* locales this run has taken up
    retrieved,          \* this run obtained the previous revision's content
    files0,             \* files when the run began
    stateFile0,         \* stateFile when the run began
    repeat,             \* the run follows a completed run with the source unchanged
    synced              \* the commit the targets were last brought in line with, 0 for none

obsVars == <<run, calls, faults, written, stateWritten, processed, retrieved,
             files0, stateFile0, repeat, synced>>

runVars == <<envVars, mainVars, obsVars>>

vars == <<pureVars, runVars>>

---------------------------------------------------------------------------
(* JavaScript values *)

Str(s) == [t |-> "str", s |-> s]
Map(f) == [t |-> "map", m |-> f]
Arr(e) == [t |-> "arr", e |-> e]
Num == [t |-> "num"]
Null == [t |-> "null"]
Undef == [t |-> "undef"]
Thrown == [t |-> "throw"]
EmptyObj == Map(<<>>)

\* typeof v === "object" && v !== null && !Array.isArray(v)
IsPlainObject(v) == v.t = "map"

\* typeof v === "object"
TypeofObject(v) == v.t \in {"map", "arr", "null"}

\* !!v  (the number leaf stands for a non-zero number)
Truthy(v) ==
    CASE v.t = "str" -> v.s # ""
      [] v.t \in {"null", "undef"} -> FALSE
      [] OTHER -> TRUE

MapSet(f, k, v) == [x \in (DOMAIN f) \cup {k} |-> IF x = k THEN v ELSE f[x]]

MapDel(f, k) == [x \in (DOMAIN f) \ {k} |-> f[x]]

\* obj[key]
Get(obj, key) ==
    IF obj.t = "map" /\ key \in DOMAIN obj.m THEN obj.m[key] ELSE Undef

\* Object.prototype.hasOwnProperty.call(obj, key)
HasOwn(obj, key) == obj.t = "map" /\ key \in DOMAIN obj.m

\* obj[key] = value.  A property put on an array is not an element and
\* yaml.dump does not write it; a property put on a primitive is dropped.
AssignProp(obj, key, value) ==
    IF obj.t = "map" THEN Map(MapSet(obj.m, key, value)) ELSE obj

---------------------------------------------------------------------------
(* Keys, flat key paths and iteration order *)

Dot == "."
KA == <<"a">>
KB == <<"b">>
KAB == <<"a", Dot, "b">>
KE == <<>>

\* for (const key in obj): own keys in insertion order.  Documents list
\* their keys in this order.
KeyOrder == <<KA, KB, KAB, KE>>

InObj(obj, key) == key \in DOMAIN obj.m

KeysOf(obj) == SelectSeq(KeyOrder, LAMBDA k : InObj(obj, k))

\* prefix ? `${prefix}.${key}` : key
Join(prefix, key) == IF prefix # <<>> THEN prefix \o <<Dot>> \o key ELSE key

DotAt(s) == IF \E i \in 1..Len(s) : s[i] = Dot
            THEN CHOOSE i \in 1..Len(s) : s[i] = Dot /\ \A j \in 1..(i - 1) : s[j] # Dot
            ELSE 0

\* mutant: the path is not split
Split_Whole(s) == <<s>>

\* path.split(".")
RECURSIVE Split(_)
Split(s) ==
    IF DotAt(s) = 0 THEN <<s>>
    ELSE <<SubSeq(s, 1, DotAt(s) - 1)>> \o Split(SubSeq(s, DotAt(s) + 1, Len(s)))

---------------------------------------------------------------------------
(* Flat maps: a JavaScript object used as a dictionary from flat key path  *)
(* to value, kept as the sequence of its entries in insertion order.       *)

FlatIndex(flat, k) ==
    IF \E i \in 1..Len(flat) : flat[i].k = k
    THEN CHOOSE i \in 1..Len(flat) : flat[i].k = k
    ELSE 0

FlatHas(flat, k) == FlatIndex(flat, k) # 0

\* flat[k]
FlatGet(flat, k) == IF FlatHas(flat, k) THEN flat[FlatIndex(flat, k)].v ELSE Undef

\* flat[k] = v
FlatPut(flat, k, v) ==
    IF FlatHas(flat, k)
    THEN [flat EXCEPT ![FlatIndex(flat, k)] = [k |-> k, v |-> v]]
    ELSE Append(flat, [k |-> k, v |-> v])

\* Object.keys(flat)
FlatKeys(flat) == [i \in 1..Len(flat) |-> flat[i].k]

FlatKeySet(flat) == {flat[i].k : i \in 1..Len(flat)}

FlatEntrySet(flat) == {<<flat[i].k, flat[i].v>> : i \in 1..Len(flat)}

---------------------------------------------------------------------------
(* Change Detector *)

\* mutant: the previous value of a nested mapping is never passed down
NestedPrevious_Dropped(v, previousVal) == EmptyObj

\* part_001 line 269: a previous value that is no object is replaced by {};
\* part_002 line 63 passes the previous value on as it is.
NestedPrevious(v, previousVal) ==
    IF v # "state" THEN previousVal
    ELSE IF TypeofObject(previousVal) /\ previousVal.t # "null" THEN previousVal
    ELSE EmptyObj

RECURSIVE getChangedLoop(_, _, _, _, _, _)
getChangedLoop(v, keys, currentObj, previousObj, changes, prefix) ==
    IF keys = <<>> THEN changes
    ELSE
        LET key == Head(keys)
            currentVal == currentObj.m[key]
            previousVal == IF Truthy(previousObj) THEN Get(previousObj, key) ELSE Undef
            fullKey == Join(prefix, key)
            changes1 ==
                IF currentVal.t = "str"
                THEN IF currentVal # previousVal
                     THEN FlatPut(changes, fullKey, currentVal)
                     ELSE changes
                ELSE IF IsPlainObject(currentVal)
                THEN getChangedLoop(v, KeysOf(currentVal), currentVal,
                                    NestedPrevious(v, previousVal), changes, fullKey)
                ELSE changes
        IN  getChangedLoop(v, Tail(keys), currentObj, previousObj, changes1, prefix)

getChangedStrings(v, currentObj, previousObj) ==
    IF currentObj.t # "map" THEN <<>>
    ELSE getChangedLoop(v, KeysOf(currentObj), currentObj, previousObj, <<>>, <<>>)

RECURSIVE getAllLoop(_, _, _, _)
getAllLoop(keys, obj, allStrings, prefix) ==
    IF keys = <<>> THEN allStrings
    ELSE
        LET key == Head(keys)
            val == obj.m[key]
            fullKey == Join(prefix, key)
            all1 ==
                IF val.t = "str" THEN FlatPut(allStrings, fullKey, val)
                ELSE IF IsPlainObject(val)
                THEN getAllLoop(KeysOf(val), val, allStrings, fullKey)
                ELSE allStrings
        IN  getAllLoop(Tail(keys), obj, all1, prefix)

getAllStringsFromObject(obj) ==
    IF obj.t # "map" THEN <<>> ELSE getAllLoop(KeysOf(obj), obj, <<>>, <<>>)

---------------------------------------------------------------------------
(* Deletion Reconciler *)

RECURSIVE removeLoop(_, _, _, _)
RECURSIVE removeDeletedKeys(_, _)

removeLoop(keys, targetObj, sourceObj, hasDeleted) ==
    IF keys = <<>> THEN [obj |-> targetObj, hasDeleted |-> hasDeleted]
    ELSE
        LET key == Head(keys) IN
        IF ~HasOwn(sourceObj, key)
        THEN removeLoop(Tail(keys), Map(MapDel(targetObj.m, key)), sourceObj, TRUE)
        ELSE IF IsPlainObject(targetObj.m[key]) /\ IsPlainObject(sourceObj.m[key])
        THEN LET r == removeDeletedKeys(targetObj.m[key], sourceObj.m[key]) IN
             removeLoop(Tail(keys), Map(MapSet(targetObj.m, key, r.obj)), sourceObj,
                        hasDeleted \/ r.hasDeleted)
        ELSE removeLoop(Tail(keys), targetObj, sourceObj, hasDeleted)

\* mutant: every key of the target is taken for deleted
removeDeletedKeys_Everything(targetObj, sourceObj) ==
    [obj |-> EmptyObj, hasDeleted |-> TRUE]

removeDeletedKeys(targetObj, sourceObj) ==
    removeLoop(KeysOf(targetObj), targetObj, sourceObj, FALSE)

---------------------------------------------------------------------------
(* Document Model of the flatten-based script *)

RECURSIVE flattenLoop(_, _, _, _)
flattenLoop(keys, obj, prefix, result) ==
    IF keys = <<>> THEN result
    ELSE
        LET key == Head(keys)
            newKey == Join(prefix, key)
            r1 == IF IsPlainObject(obj.m[key])
                  THEN flattenLoop(KeysOf(obj.m[key]), obj.m[key], newKey, result)
                  ELSE FlatPut(result, newKey, obj.m[key])
        IN  flattenLoop(Tail(keys), obj, prefix, r1)

flattenObject(obj) ==
    IF obj.t # "map" THEN <<>> ELSE flattenLoop(KeysOf(obj), obj, <<>>, <<>>)

\* One pass of keys.reduce(...) from `acc`, for the remaining `keys`.
\* Returns acc after the pass, or Thrown when a property of undefined is set.
RECURSIVE unflattenReduce(_, _, _)
unflattenReduce(acc, keys, value) ==
    LET currentKey == Head(keys) IN
    IF Len(keys) = 1 THEN AssignProp(acc, currentKey, value)
    ELSE
        \* acc[currentKey] = acc[currentKey] || {}; return acc[currentKey]
        LET old == Get(acc, currentKey)
            kept == IF Truthy(old) THEN old ELSE EmptyObj
        IN  IF acc.t = "arr" THEN acc          \* goes on inside a dropped property
            ELSE IF acc.t # "map" THEN Thrown  \* a primitive: the next pass has acc undefined
            ELSE LET sub == unflattenReduce(kept, Tail(keys), value) IN
                 IF sub.t = "throw" THEN Thrown ELSE AssignProp(acc, currentKey, sub)

RECURSIVE unflattenLoop(_, _, _)
unflattenLoop(flat, i, result) ==
    IF i > Len(flat) \/ result.t = "throw" THEN result
    ELSE unflattenLoop(flat, i + 1, unflattenReduce(result, Split(flat[i].k), flat[i].v))

unflattenObject(flat) == unflattenLoop(flat, 1, EmptyObj)

---------------------------------------------------------------------------
(* Writing a value at a flat key path *)

\* The test of the loop of setDeep for replacing current[part] by {}.
\* part_002 line 177 and copy_yaml.js line 148 add Array.isArray;
\* part_001 lets an array stand.
NeedsFreshObject(v, old) ==
    \/ ~Truthy(old)
    \/ ~TypeofObject(old)
    \/ (v # "state" /\ old.t = "arr")

RECURSIVE setDeepParts(_, _, _, _)
setDeepParts(v, current, parts, value) ==
    IF Len(parts) = 1 THEN AssignProp(current, Head(parts), value)
    ELSE
        LET old == Get(current, Head(parts))
            child == IF NeedsFreshObject(v, old) THEN EmptyObj ELSE old
        IN  AssignProp(current, Head(parts), setDeepParts(v, child, Tail(parts), value))

\* mutant: the value is put into an object that holds nothing else
setDeep_Afresh(v, obj, path, value) == setDeepParts(v, EmptyObj, Split(path), value)

setDeep(v, obj, path, value) == setDeepParts(v, obj, Split(path), value)

\* key.split(".").reduce((o, i) => o && o[i], finalLocaleStrings)
RECURSIVE ReduceGet(_, _)
ReduceGet(o, parts) ==
    IF parts = <<>> THEN o
    ELSE ReduceGet(IF Truthy(o) THEN Get(o, Head(parts)) ELSE o, Tail(parts))

\* a === b: objects and arrays of two separate loads are never the same
StrictEq(a, b) == a = b /\ a.t \notin {"map", "arr"}

\* What yaml.load reads back from what yaml.dump wrote: a key whose value
\* is undefined is not written (js-yaml 4, which `npm install js-yaml` of
\* the workflow installs), everything else comes back.
RECURSIVE DumpLoad(_)
DumpLoad(n) ==
    IF n.t # "map" THEN n
    ELSE Map([k \in {x \in DOMAIN n.m : n.m[x].t # "undef"} |-> DumpLoad(n.m[k])])

---------------------------------------------------------------------------
(* Translation *)

\* LOCALE_CONFIGS, its first two entries
LOCALE_CONFIGS ==
    << [folder |-> "es-es", name |-> "Spanish (Spain)"],
       [folder |-> "fr-fr", name |-> "French (France)"] >>

NumLocales == Len(LOCALE_CONFIGS)

\* String.prototype.trim on the strings that occur
Trim(s) ==
    CASE s = " " -> ""
      [] s = "Adios " -> "Adios"
      [] s = "Adios ?" -> "Adios ?"
      [] OTHER -> s

\* text.trim() === ""
IsBlank(s) == Trim(s) = ""

\* The guard of translateString that returns text as it is:
\* part_001 line 325, part_002 line 128, copy_yaml.js line 419.
ReturnsTextAsIs(v, text) ==
    CASE v = "state" -> ~Truthy(text) \/ IsBlank(text.s)
      [] v = "flat" -> text.t # "str" \/ IsBlank(text.s)
      [] OTHER -> IsBlank(text.s)

\* The text the capability usually answers with (it may end in a blank).
UsualAnswer(s, name) ==
    CASE s = "Hello" /\ name = "Spanish (Spain)" -> "Hola"
      [] s = "Bye" /\ name = "Spanish (Spain)" -> "Adios "
      [] s = "Hello" -> "Bonjour"
      [] OTHER -> "Au revoir"

\* What the capability can do with one request.
Ok(s) == [t |-> "ok", text |-> Str(s)]
NoText == [t |-> "ok", text |-> Undef]
Failure == [t |-> "error"]

\* copy_yaml.js line 426 reads ai.model, which the client does not have:
\* the request fails in the script before it is sent.
Outcomes(v, s, name) ==
    IF v = "flat" THEN {Failure}
    ELSE {Ok(UsualAnswer(s, name)), Ok(UsualAnswer(s, name) \o "?"), NoText, Failure}

UsualOutcome(v, s, name) == IF v = "flat" THEN Failure ELSE Ok(UsualAnswer(s, name))

\* the placeholder of the catch block
Placeholder(v, s, name) ==
    IF v \in {"before", "delta"}
    THEN Str("[Translation Error with GenAI to " \o name \o "] " \o s)
    ELSE Str("[Translation Error] " \o s)

\* What translateString returns once the request has settled with o.
\* part_001: result.text as it is.  part_002: result.text.trim(), which
\* throws into the catch block when there is no text.
translateString(v, text, name, o) ==
    IF o.t = "error" THEN Placeholder(v, text.s, name)
    ELSE IF v = "state" THEN o.text
    ELSE IF o.text.t = "undef" THEN Placeholder(v, text.s, name)
    ELSE Str(Trim(o.text.s))

---------------------------------------------------------------------------
(* The script that translates the whole source to French (part_003) *)

\* for (const key in array): the indices, as property names
IndexKey(i) == CASE i = 1 -> <<"0">> [] i = 2 -> <<"1">> [] OTHER -> <<"2">>

\* part_003 lines 77-87: the text put in for a string that is not blank,
\* every request of the call being answered in the same way
translatedText(value, targetLanguage, answer) ==
    IF answer = "usual" THEN Str(Trim(UsualAnswer(value.s, targetLanguage)))
    ELSE Str("[Translation Error with GenAI] " \o value.s)

\* part_003 lines 70-100.  typeof value === 'object' holds for an array
\* too: its indices are walked and the result is a fresh plain object.
RECURSIVE translateObject(_, _, _)
translateObject(obj, targetLanguage, answer) ==
    CASE obj.t = "map" ->
            Map([k \in DOMAIN obj.m |->
                   LET value == obj.m[k] IN
                   IF value.t = "str"
                   THEN IF ~IsBlank(value.s)
                        THEN translatedText(value, targetLanguage, answer)
                        ELSE value
                   ELSE IF value.t \in {"map", "arr"}
                   THEN translateObject(value, targetLanguage, answer)
                   ELSE value])
      [] obj.t = "arr" ->
            Map([k \in {IndexKey(i) : i \in 1..Len(obj.e)} |->
                   LET value == obj.e[CHOOSE i \in 1..Len(obj.e) : IndexKey(i) = k] IN
                   IF value.t = "str"
                   THEN IF ~IsBlank(value.s)
                        THEN translatedText(value, targetLanguage, answer)
                        ELSE value
                   ELSE IF value.t \in {"map", "arr"}
                   THEN translateObject(value, targetLanguage, answer)
                   ELSE value])
      [] OTHER -> obj

---------------------------------------------------------------------------
(* Bounded universe of documents *)

\* most leaves and empty mappings a generated document holds
MaxEntries == 2

\* places of a document: sequences of nested keys
TreePaths == {<<KA>>, <<KB>>, <<KAB>>, <<KA, KB>>, <<KE, KB>>}

TreeLeaves == {Str("x"), Str("y"), EmptyObj, Num}

IsPrefix(p, q) == Len(p) <= Len(q) /\ SubSeq(q, 1, Len(p)) = p

\* no place is given twice or lies beneath another
Compatible(S, e) == \A d \in S : ~IsPrefix(d[1], e[1]) /\ ~IsPrefix(e[1], d[1])

RECURSIVE EntrySets(_, _, _)
EntrySets(paths, leaves, n) ==
    IF n = 0 THEN {{}}
    ELSE LET smaller == EntrySets(paths, leaves, n - 1) IN
         smaller \cup {S \cup {e} : <<S, e>> \in
                         {se \in smaller \X (paths \X leaves) : Compatible(se[1], se[2])}}

RECURSIVE Insert(_, _, _)
Insert(f, path, leaf) ==
    IF Len(path) = 1 THEN MapSet(f, Head(path), leaf)
    ELSE MapSet(f, Head(path),
                Map(Insert(IF Head(path) \in DOMAIN f THEN f[Head(path)].m ELSE <<>>,
                           Tail(path), leaf)))

RECURSIVE Build(_)
Build(S) ==
    IF S = {} THEN <<>>
    ELSE LET e == CHOOSE e \in S : TRUE IN Insert(Build(S \ {e}), e[1], e[2])

DocsOver(paths, leaves, n) == {Map(Build(S)) : S \in EntrySets(paths, leaves, n)}

Docs == DocsOver(TreePaths, TreeLeaves, MaxEntries)

---------------------------------------------------------------------------
(* What the statements speak of, read off a document's tree *)

\* every leaf (a value that is no mapping) with the keys that lead to it
RECURSIVE LeafEntries(_)
LeafEntries(n) ==
    UNION { IF n.m[k].t = "map"
            THEN {<<(<<k>>) \o e[1], e[2]>> : e \in LeafEntries(n.m[k])}
            ELSE {<<(<<k>>), n.m[k]>>}
          : k \in DOMAIN n.m }

\* the flat key path: the nested keys joined by "."
RECURSIVE FlatName(_)
FlatName(path) ==
    IF Len(path) = 1 THEN path[1] ELSE path[1] \o <<Dot>> \o FlatName(Tail(path))

LeafSet(doc) == {<<FlatName(e[1]), e[2]>> : e \in LeafEntries(doc)}

StringLeafSet(doc) == {e \in LeafSet(doc) : e[2].t = "str"}

FlatPathsOf(doc) == {e[1] : e \in LeafSet(doc)}

\* the flat key paths of all nodes below the root, leaves and mappings
RECURSIVE NodePaths(_)
NodePaths(n) ==
    IF n.t # "map" THEN {}
    ELSE UNION { {<<k>>} \cup {(<<k>>) \o q : q \in NodePaths(n.m[k])} : k \in DOMAIN n.m }

NodePathsOf(doc) == {FlatName(q) : q \in NodePaths(doc)}

RECURSIVE AllKeys(_)
AllKeys(n) ==
    IF n.t # "map" THEN {}
    ELSE (DOMAIN n.m) \cup UNION {AllKeys(n.m[k]) : k \in DOMAIN n.m}

\* no key is empty or holds a "."
PlainKeys(doc) == \A k \in AllKeys(doc) : k # <<>> /\ DotAt(k) = 0

RECURSIVE Nodes(_)
Nodes(n) ==
    IF n.t # "map" THEN {n}
    ELSE {n} \cup UNION {Nodes(n.m[k]) : k \in DOMAIN n.m}

\* only string leaves and mapping nodes
StringsAndMappingsOnly(doc) == \A n \in Nodes(doc) : n.t \in {"str", "map"}

\* no mapping below the root is empty
NoEmptyMapping(doc) == \A k \in DOMAIN doc.m : EmptyObj \notin Nodes(doc.m[k])

---------------------------------------------------------------------------
(* The repository a run finds *)

\* most runs in a row
MaxRuns == 2

\* most answers of the environment (translation capability, git) that are
\* not the usual one
MaxFaults == 1

Variants == {"state", "before", "delta", "flat"}

Locs == 1..NumLocales

\* a file that is not there, and one whose content does not parse
Absent == [t |-> "absent"]
Unparseable == [t |-> "bad"]

\* { "lastTranslatedCommit": <commit i of repo> }
\* mutant: the state names the first commit whatever the run worked on
StateAt_First(i) == [t |-> "rev", rev |-> 1]

StateAt(i) == [t |-> "rev", rev |-> i]

\* { "lastTranslatedCommit": null }
NoRevision == [t |-> "norev"]

\* contents of the source file: additions, a modification, a deletion, a
\* leaf turned into a mapping and back, a blank string, an empty file
SrcDocs ==
    { EmptyObj,
      Map(KA :> Str("Hello")),
      Map(KA :> Str("Hello") @@ KB :> Str("Bye")),
      Map(KA :> Str("Bye")),
      Map(KA :> Map(KB :> Str("Hello"))),
      Map(KA :> Map(KB :> Str("Hello")) @@ KB :> Str("Bye")),
      Map(KA :> Str("Hello") @@ KB :> Str(" ")),
      Map(KA :> Str("Hello") @@ KB :> Str("")) }

\* the commit before the head and the head: a commit leaves the source as
\* it is or changes what one of its top-level keys holds
Histories ==
    {h \in {<<p, c>> : p \in SrcDocs, c \in SrcDocs} :
        Cardinality({k \in {KA, KB} : Get(h[1], k) # Get(h[2], k)}) <= 1}

\* the target a run of the script leaves for a source document when every
\* request is answered as usual
RECURSIVE Translated(_, _, _)
Translated(v, n, name) ==
    IF n.t = "map" THEN Map([k \in DOMAIN n.m |-> Translated(v, n.m[k], name)])
    ELSE IF n.t # "str" \/ ReturnsTextAsIs(v, n) THEN n
    ELSE translateString(v, n, name, UsualOutcome(v, n.s, name))

TargetKinds == {"absent", "bad", "empty", "sync"}

StartTarget(kind, v, doc, l) ==
    CASE kind = "absent" -> Absent
      [] kind = "bad" -> Unparseable
      [] kind = "empty" -> EmptyObj
      [] OTHER -> Translated(v, doc, LOCALE_CONFIGS[l].name)

HeadCommit == Len(repo)

\* mutant: a state file that is there is taken to name the first commit
StateCommit_Unchecked == IF stateFile.t = "absent" THEN 0 ELSE 1

\* part_001 lines 370-388: the commit the state file names, 0 for none
StateCommit == IF stateFile.t = "rev" THEN stateFile.rev ELSE 0

\* the variables of one run of main(), before it starts
RunStart ==
    /\ pc = "start"
    /\ why = "-"
    /\ li = 0
    /\ previousCommitSha = 0
    /\ isFirstRun = FALSE
    /\ currentStrings = EmptyObj
    /\ previousStrings = EmptyObj
    /\ delta = <<>>
    /\ isNew = FALSE
    /\ strings = <<>>
    /\ ki = 0
    /\ final = EmptyObj
    /\ newFlat = <<>>
    /\ hasChanges = FALSE
    /\ anyModified = FALSE
    /\ calls = <<>>
    /\ written = {}
    /\ stateWritten = FALSE
    /\ processed = {}
    /\ retrieved = FALSE

Init ==
    /\ env \in [SOURCE_YAML_PATH : BOOLEAN, GEMINI_API_KEY : BOOLEAN]
    /\ variant \in Variants
    /\ repo \in Histories
    /\ IF variant = "state"
       THEN before = 0 /\ stateFile \in {Absent, Unparseable, NoRevision, StateAt(1)}
       ELSE before \in {0, 1} /\ stateFile = Absent
    /\ \E kind \in [Locs -> TargetKinds] :
           files = [l \in Locs |-> StartTarget(kind[l], variant, repo[1], l)]
    /\ files0 = files
    /\ stateFile0 = stateFile
    /\ run = 1
    /\ faults = 0
    /\ repeat = FALSE
    /\ synced = IF variant = "state" THEN StateCommit ELSE before
    /\ RunStart
    /\ fn = [name |-> "none", variant |-> "-"]
    /\ arg1 = EmptyObj
    /\ arg2 = EmptyObj
    /\ out = Undef

---------------------------------------------------------------------------
(* The checks of the configuration that precede main() *)

\* mutant: only the source path is looked at
Configured_PathOnly == env.SOURCE_YAML_PATH

\* part_001 lines 220-227, part_002 lines 9-20, copy_yaml.js lines 339-344:
\* the source path and the credential are both set
Configured == env.SOURCE_YAML_PATH /\ env.GEMINI_API_KEY

\* process.exit(1) before main() is called
MissingConfig ==
    /\ pc = "start"
    /\ ~Configured
    /\ pc' = "fatal"
    /\ why' = "config"
    /\ UNCHANGED <<envVars, li, previousCommitSha, isFirstRun, currentStrings,
                   previousStrings, delta, isNew, strings, ki, final, newFlat, hasChanges,
                   anyModified, obsVars>>
    /\ UNCHANGED pureVars

---------------------------------------------------------------------------
(* main(): reading the Run State and the two snapshots *)

\* mutant: the document that is checked out is taken for the previous one
PreviousSnapshot_Head(sha, ok) == repo[HeadCommit]

\* getFileContentFromCommit and yaml.load of what it returns: the document
\* at commit sha when git show succeeds (ok), {} otherwise
PreviousSnapshot(sha, ok) == IF sha # 0 /\ ok THEN repo[sha] ELSE EmptyObj

Begin ==
    /\ pc = "start"
    /\ Configured
    /\ LET sha == IF variant = "state" THEN StateCommit ELSE before IN
       /\ previousCommitSha' = sha
       /\ isFirstRun' = (variant = "state" /\ sha = 0)
       /\ currentStrings' = repo[HeadCommit]
       /\ \E ok \in BOOLEAN :
            \* git show of the commit that is checked out does not fail
            /\ sha = 0 => ~ok
            /\ (sha # 0 /\ ~ok) => (sha # HeadCommit /\ faults < MaxFaults)
            /\ previousStrings' = PreviousSnapshot(sha, ok)
            /\ retrieved' = ok
            /\ faults' = IF ok \/ sha = 0 THEN faults ELSE faults + 1
            /\ delta' = IF variant = "state"
                        THEN getChangedStrings(variant, repo[HeadCommit],
                                               PreviousSnapshot(sha, ok))
                        ELSE <<>>
    /\ li' = 1
    /\ pc' = "locale"
    /\ UNCHANGED <<envVars, why, isNew, strings, ki, final, newFlat, hasChanges, anyModified,
                   run, calls, written, stateWritten, processed, files0, stateFile0, repeat, synced>>
    /\ UNCHANGED pureVars

---------------------------------------------------------------------------
(* main(): one locale *)

Name == LOCALE_CONFIGS[li].name

\* mutant: finalLocaleStrings is declared outside the loop over the locales
FreshDocument_Carried == final

\* part_001 line 410: let finalLocaleStrings = {}
FreshDocument == EmptyObj

\* existingLocaleObj of copy_yaml.js lines 465-474: {} when the file is
\* absent or does not parse
ExistingLocaleObj == IF files[li].t = "map" THEN files[li] ELSE EmptyObj

\* Loading the target, removing deleted keys and choosing the keys to walk.
\* The flags part_001 sets after its loops (lines 419, 439) depend on the
\* number of keys only and are set here.
BeginLocale ==
    /\ pc = "locale"
    /\ li <= NumLocales
    /\ processed' = processed \cup {li}
    /\ isNew' = (files[li] = Absent)
    /\ IF variant = "flat"
       THEN /\ strings' = flattenObject(currentStrings)
            /\ final' = ExistingLocaleObj
            /\ hasChanges' = FALSE
            /\ pc' = "keys"
            /\ why' = why
       ELSE IF files[li] = Unparseable
       THEN \* yaml.load throws and nothing in the loop catches it
            /\ pc' = "fatal"
            /\ why' = "target"
            /\ UNCHANGED <<strings, final, hasChanges>>
       ELSE IF files[li] = Absent
       THEN /\ strings' = IF variant = "delta"
                          THEN getChangedStrings(variant, currentStrings, previousStrings)
                          ELSE getAllStringsFromObject(currentStrings)
            /\ final' = FreshDocument
            /\ hasChanges' = (variant = "state"
                              /\ getAllStringsFromObject(currentStrings) # <<>>)
            /\ pc' = "keys"
            /\ why' = why
       ELSE LET r == removeDeletedKeys(files[li], currentStrings)
                todo == IF variant = "state" THEN delta
                        ELSE getChangedStrings(variant, currentStrings, previousStrings)
            IN  /\ strings' = todo
                /\ final' = r.obj
                /\ hasChanges' = (r.hasDeleted \/ (variant = "state" /\ todo # <<>>))
                /\ pc' = "keys"
                /\ why' = why
    /\ ki' = 1
    /\ newFlat' = <<>>
    /\ UNCHANGED <<envVars, li, previousCommitSha, isFirstRun, currentStrings,
                   previousStrings, delta, anyModified,
                   run, calls, faults, written, stateWritten, retrieved,
                   files0, stateFile0, repeat, synced>>
    /\ UNCHANGED pureVars

Key == strings[ki].k
Text == strings[ki].v

\* mutant: the loop goes on while a request is outstanding
AtKey_NotAwaited == pc \in {"keys", "await"} /\ ki <= Len(strings)

AtKey == pc = "keys" /\ ki <= Len(strings)

\* mutant: the loop does not move on
AfterThisKey_Stuck == ki

\* the loop goes on to the key after this one
AfterThisKey == ki + 1

\* copy_yaml.js line 487: the English text is as it was and a translation exists
Reusable ==
    /\ variant = "flat"
    /\ StrictEq(Text, FlatGet(flattenObject(previousStrings), Key))
    /\ FlatGet(flattenObject(ExistingLocaleObj), Key).t # "undef"

\* Putting the value translateString returned where the script keeps it:
\* part_001 line 436 (and 417), part_002 lines 296-314, copy_yaml.js line 494
Store(value) ==
    CASE variant = "state" ->
            /\ final' = setDeep(variant, final, Key, value)
            /\ UNCHANGED <<newFlat, hasChanges>>
      [] variant = "flat" ->
            /\ newFlat' = FlatPut(newFlat, Key, value)
            /\ hasChanges' = TRUE
            /\ UNCHANGED final
      [] OTHER ->
            IF ~StrictEq(value, ReduceGet(final, Split(Key)))
            THEN /\ final' = setDeep(variant, final, Key, value)
                 /\ hasChanges' = TRUE
                 /\ UNCHANGED newFlat
            ELSE UNCHANGED <<final, newFlat, hasChanges>>

ReuseKey ==
    /\ AtKey
    /\ Reusable
    /\ newFlat' = FlatPut(newFlat, Key, FlatGet(flattenObject(ExistingLocaleObj), Key))
    /\ ki' = AfterThisKey
    /\ UNCHANGED <<envVars, pc, why, li, previousCommitSha, isFirstRun, currentStrings,
                   previousStrings, delta, isNew, strings, final, hasChanges, anyModified,
                   obsVars>>
    /\ UNCHANGED pureVars

\* translateString returns the text without a request
PassThrough ==
    /\ AtKey
    /\ ~Reusable
    /\ ReturnsTextAsIs(variant, Text)
    /\ Store(Text)
    /\ ki' = AfterThisKey
    /\ UNCHANGED <<envVars, pc, why, li, previousCommitSha, isFirstRun, currentStrings,
                   previousStrings, delta, isNew, strings, anyModified, obsVars>>
    /\ UNCHANGED pureVars

\* translateString sends the request and main waits for it
IssueCall ==
    /\ AtKey
    /\ ~Reusable
    /\ ~ReturnsTextAsIs(variant, Text)
    /\ calls' = Append(calls, [l |-> li, k |-> Key, text |-> Text,
                               o |-> [t |-> "pending"], ret |-> Undef])
    /\ pc' = "await"
    /\ UNCHANGED <<envVars, why, li, previousCommitSha, isFirstRun, currentStrings,
                   previousStrings, delta, isNew, strings, ki, final, newFlat, hasChanges,
                   anyModified, run, faults, written, stateWritten, processed, retrieved,
                   files0, stateFile0, repeat, synced>>
    /\ UNCHANGED pureVars

\* the request settles, translateString returns and the value is stored
Settle ==
    /\ pc = "await"
    /\ \E o \in Outcomes(variant, Text.s, Name) :
         LET usual == o = UsualOutcome(variant, Text.s, Name)
             ret == translateString(variant, Text, Name, o)
         IN  /\ usual \/ faults < MaxFaults
             /\ faults' = IF usual THEN faults ELSE faults + 1
             /\ calls' = [calls EXCEPT ![Len(calls)].o = o, ![Len(calls)].ret = ret]
             /\ Store(ret)
    /\ ki' = AfterThisKey
    /\ pc' = "keys"
    /\ UNCHANGED <<envVars, why, li, previousCommitSha, isFirstRun, currentStrings,
                   previousStrings, delta, isNew, strings, anyModified,
                   run, written, stateWritten, processed, retrieved,
                   files0, stateFile0, repeat, synced>>
    /\ UNCHANGED pureVars

AfterKeys == pc = "keys" /\ ki > Len(strings)

\* hasChangesForThisLocale when the loop is over; copy_yaml.js lines
\* 498-503 add the comparison of the two numbers of keys
LocaleChanged ==
    \/ hasChanges
    \/ (variant = "flat" /\ Len(strings) # Len(flattenObject(ExistingLocaleObj)))

\* `continue` without a write
SkipLocale ==
    /\ AfterKeys
    /\ ~LocaleChanged
    /\ li' = li + 1
    /\ pc' = "locale"
    /\ UNCHANGED <<envVars, why, previousCommitSha, isFirstRun, currentStrings,
                   previousStrings, delta, isNew, strings, ki, final, newFlat, hasChanges,
                   anyModified, obsVars>>
    /\ UNCHANGED pureVars

\* finalLocaleStrings / finalNewLocaleObj, the object that is dumped
Dumped == IF variant = "flat" THEN unflattenObject(newFlat) ELSE final

WriteLocale ==
    /\ AfterKeys
    /\ LocaleChanged
    /\ IF Dumped = Thrown
       THEN \* unflattenObject threw and main().catch ends the process
            /\ pc' = "fatal"
            /\ why' = "unflatten"
            /\ UNCHANGED <<files, written, li>>
       ELSE /\ files' = [files EXCEPT ![li] = DumpLoad(Dumped)]
            /\ written' = written \cup {li}
            /\ li' = li + 1
            /\ pc' = "locale"
            /\ why' = why
    /\ anyModified' = TRUE
    /\ UNCHANGED <<env, variant, repo, before, stateFile, previousCommitSha, isFirstRun,
                   currentStrings, previousStrings, delta, isNew, strings, ki, final,
                   newFlat, hasChanges,
                   run, calls, faults, stateWritten, processed, retrieved,
                   files0, stateFile0, repeat, synced>>
    /\ UNCHANGED pureVars

---------------------------------------------------------------------------
(* main(): after the last locale *)

\* mutant: the state is written at the end of every run
ShouldPersistState_Always == TRUE

\* part_001 line 458
ShouldPersistState == anyModified \/ isFirstRun

\* mutant: the loop over the locales is left after the first one
LoopOver_AfterFirst == li > 1

\* for (const locale of LOCALE_CONFIGS) has no locale left
LoopOver == li > NumLocales

\* part_001 lines 456-465 write the Run State; part_002 lines 356-361
\* leave with process.exit(0) when no file was written
EndRun ==
    /\ pc = "locale"
    /\ LoopOver
    /\ IF variant = "state" /\ ShouldPersistState
       THEN stateFile' = StateAt(HeadCommit) /\ stateWritten' = TRUE
       ELSE UNCHANGED <<stateFile, stateWritten>>
    /\ why' = IF variant \in {"before", "delta"} /\ ~anyModified THEN "exit0" ELSE "end"
    /\ pc' = "done"
    /\ UNCHANGED <<env, variant, repo, before, files, li, previousCommitSha, isFirstRun,
                   currentStrings, previousStrings, delta, isNew, strings, ki, final,
                   newFlat, hasChanges, anyModified,
                   run, calls, faults, written, processed, retrieved,
                   files0, stateFile0, repeat, synced>>
    /\ UNCHANGED pureVars

\* part_001 line 460: fs.writeFileSync(STATE_FILE_PATH, ...) throws, main
\* rejects and main().catch (lines 468-471) ends the process with code 1.
\* writeFileSync opens the file with flag "w", which empties it: when the
\* failure comes after the file was opened, the file is left without its
\* content; when the file could not be opened, it is as it was.
StateWriteFails ==
    /\ pc = "locale"
    /\ LoopOver
    /\ variant = "state"
    /\ ShouldPersistState
    /\ faults < MaxFaults
    /\ faults' = faults + 1
    /\ \E opened \in BOOLEAN :
         stateFile' = IF opened THEN Unparseable ELSE stateFile
    /\ pc' = "fatal"
    /\ why' = "state"
    /\ UNCHANGED <<env, variant, repo, before, files, li, previousCommitSha, isFirstRun,
                   currentStrings, previousStrings, delta, isNew, strings, ki, final,
                   newFlat, hasChanges, anyModified,
                   run, calls, written, stateWritten, processed, retrieved,
                   files0, stateFile0, repeat, synced>>
    /\ UNCHANGED pureVars

\* The workflow runs the script again: the same job once more (push = FALSE)
\* or after a push whose source file is as at the head or as at the first
\* commit.  github.event.before is then the former head.
NextRun ==
    /\ pc = "done"
    /\ run < MaxRuns
    /\ \E push \in BOOLEAN, d \in {repo[HeadCommit], repo[1]} :
         /\ ~push => d = repo[HeadCommit]
         /\ repo' = IF push THEN Append(repo, d) ELSE repo
         /\ before' = IF push /\ variant # "state" THEN HeadCommit ELSE before
         /\ repeat' = (d = repo[HeadCommit])
    /\ synced' = HeadCommit
    /\ run' = run + 1
    /\ files0' = files
    /\ stateFile0' = stateFile
    /\ pc' = "start"
    /\ why' = "-"
    /\ li' = 0
    /\ previousCommitSha' = 0
    /\ isFirstRun' = FALSE
    /\ currentStrings' = EmptyObj
    /\ previousStrings' = EmptyObj
    /\ delta' = <<>>
    /\ isNew' = FALSE
    /\ strings' = <<>>
    /\ ki' = 0
    /\ final' = EmptyObj
    /\ newFlat' = <<>>
    /\ hasChanges' = FALSE
    /\ anyModified' = FALSE
    /\ calls' = <<>>
    /\ written' = {}
    /\ stateWritten' = FALSE
    /\ processed' = {}
    /\ retrieved' = FALSE
    /\ UNCHANGED <<env, variant, stateFile, files, faults>>
    /\ UNCHANGED pureVars

Next ==
    \/ MissingConfig
    \/ Begin
    \/ BeginLocale
    \/ ReuseKey
    \/ PassThrough
    \/ IssueCall
    \/ Settle
    \/ SkipLocale
    \/ WriteLocale
    \/ EndRun
    \/ StateWriteFails
    \/ NextRun

Spec == Init /\ [][Next]_vars

\* the exit code of the process once it has ended: 1 after process.exit(1)
\* or an uncaught exception, 0 otherwise
ExitCode == IF pc = "fatal" THEN 1 ELSE 0

\* the run variables while the pure functions are applied
RunIdle ==
    /\ env = [SOURCE_YAML_PATH |-> TRUE, GEMINI_API_KEY |-> TRUE]
    /\ variant = "-"
    /\ repo = <<>>
    /\ before = 0
    /\ stateFile = Absent
    /\ files = <<>>
    /\ files0 = <<>>
    /\ stateFile0 = Absent
    /\ run = 0
    /\ faults = 0
    /\ repeat = FALSE
    /\ synced = 0
    /\ RunStart

---------------------------------------------------------------------------
(* The pure functions applied to every pair of generated documents *)

Applied(name, v) == [name |-> name, variant |-> v]

PureInit ==
    /\ fn = Applied("none", "-")
    /\ arg1 \in Docs
    /\ arg2 \in Docs
    /\ out = Undef
    /\ RunIdle

ApplyGetChangedStrings(v) ==
    /\ fn.name = "none"
    /\ fn' = Applied("getChangedStrings", v)
    /\ out' = getChangedStrings(v, arg1, arg2)
    /\ UNCHANGED <<arg1, arg2>>
    /\ UNCHANGED runVars

ApplyRemoveDeletedKeys ==
    /\ fn.name = "none"
    /\ fn' = Applied("removeDeletedKeys", "-")
    /\ out' = removeDeletedKeys(arg1, arg2)
    /\ UNCHANGED <<arg1, arg2>>
    /\ UNCHANGED runVars

ApplyFlattenUnflatten ==
    /\ fn.name = "none"
    /\ fn' = Applied("unflattenObject", "-")
    /\ out' = unflattenObject(flattenObject(arg1))
    /\ UNCHANGED <<arg1, arg2>>
    /\ UNCHANGED runVars

PureNext ==
    \/ \E v \in {"state", "before"} : ApplyGetChangedStrings(v)
    \/ ApplyRemoveDeletedKeys
    \/ ApplyFlattenUnflatten

SpecPure == PureInit /\ [][PureNext]_vars

---------------------------------------------------------------------------
(* The functions applied to documents that hold numbers and arrays *)

InertPaths == {<<KA>>, <<KB>>, <<KA, KB>>}

InertLeaves == {Str("Hello"), Num, Arr(<<Str("Hello")>>), Arr(<<Num, Str("Bye")>>)}

InertDocs == DocsOver(InertPaths, InertLeaves, MaxEntries)

InertInit ==
    /\ fn = Applied("none", "-")
    /\ arg1 \in InertDocs
    /\ arg2 \in InertDocs
    /\ out = Undef
    /\ RunIdle

\* part_003 lines 106-110: main translates the whole source to French
ApplyTranslateObject(answer) ==
    /\ fn.name = "none"
    /\ fn' = Applied("translateObject", answer)
    /\ out' = translateObject(arg1, "French", answer)
    /\ UNCHANGED <<arg1, arg2>>
    /\ UNCHANGED runVars

ApplyGetAllStrings ==
    /\ fn.name = "none"
    /\ fn' = Applied("getAllStringsFromObject", "-")
    /\ out' = getAllStringsFromObject(arg1)
    /\ UNCHANGED <<arg1, arg2>>
    /\ UNCHANGED runVars

ApplyFlattenObject ==
    /\ fn.name = "none"
    /\ fn' = Applied("flattenObject", "-")
    /\ out' = flattenObject(arg1)
    /\ UNCHANGED <<arg1, arg2>>
    /\ UNCHANGED runVars

\* the flat key path and the value that are written into a document
LaterPath == FlatName(<<KA, KB>>)

LaterValue == Str("Bye")

\* part_001 line 436, part_002 line 305: setDeep(finalLocaleStrings, key, ...)
ApplySetDeep(v) ==
    /\ fn.name = "none"
    /\ fn' = Applied("setDeep", v)
    /\ out' = setDeep(v, arg1, LaterPath, LaterValue)
    /\ UNCHANGED <<arg1, arg2>>
    /\ UNCHANGED runVars

\* copy_yaml.js line 511: unflattenObject of a flat map whose last entry
\* is the later path
ApplyUnflattenObject ==
    /\ fn.name = "none"
    /\ fn' = Applied("unflattenObject", "-")
    /\ out' = unflattenObject(FlatPut(flattenObject(arg1), LaterPath, LaterValue))
    /\ UNCHANGED <<arg1, arg2>>
    /\ UNCHANGED runVars

InertNext ==
    \/ \E answer \in {"usual", "error"} : ApplyTranslateObject(answer)
    \/ \E v \in {"state", "before"} : ApplyGetChangedStrings(v)
    \/ ApplyGetAllStrings
    \/ ApplyFlattenObject
    \/ \E v \in {"state", "before"} : ApplySetDeep(v)
    \/ ApplyUnflattenObject

SpecInert == InertInit /\ [][InertNext]_vars

---------------------------------------------------------------------------
(* One locale of the flatten-based script, as a function *)

\* What translateString of script v returns for a text when the
\* translation capability answers as usual.
ResolvedBy(v, name, text) ==
    IF ReturnsTextAsIs(v, text) THEN text
    ELSE translateString(v, text, name, UsualOutcome(v, text.s, name))

\* mutant: a key whose text is as it was is reused, translated or not
ReusedKey_TextOnly(e, flatPrevious, flatExisting) ==
    StrictEq(e.v, FlatGet(flatPrevious, e.k))

\* copy_yaml.js line 487: the key's text is as it was and the target has
\* a value for the key
ReusedKey(e, flatPrevious, flatExisting) ==
    /\ StrictEq(e.v, FlatGet(flatPrevious, e.k))
    /\ FlatGet(flatExisting, e.k).t # "undef"

\* copy_yaml.js lines 480-495: newFlatLocale after the loop over the
\* entries of flatCurrentSource from the i-th on
RECURSIVE newFlatLocale(_, _, _, _, _, _)
newFlatLocale(flatCurrent, i, flat, flatPrevious, flatExisting, name) ==
    IF i > Len(flatCurrent) THEN flat
    ELSE newFlatLocale(flatCurrent, i + 1,
                       FlatPut(flat, flatCurrent[i].k,
                               IF ReusedKey(flatCurrent[i], flatPrevious, flatExisting)
                               THEN FlatGet(flatExisting, flatCurrent[i].k)
                               ELSE ResolvedBy("flat", name, flatCurrent[i].v)),
                       flatPrevious, flatExisting, name)

\* copy_yaml.js lines 476-511 for one locale: whether the target is
\* rewritten and the object that is dumped
flatLocale(current, previous, existing, name) ==
    LET flatCurrent == flattenObject(current)
        flatPrevious == flattenObject(previous)
        flatExisting == flattenObject(existing)
    IN  [t |-> "locale",
         previous |-> previous,
         changed |-> \/ \E i \in 1..Len(flatCurrent) :
                           ~ReusedKey(flatCurrent[i], flatPrevious, flatExisting)
                     \/ Len(flatCurrent) # Len(flatExisting),
         doc |-> unflattenObject(newFlatLocale(flatCurrent, 1, <<>>, flatPrevious,
                                               flatExisting, name))]

\* contents of the source file, with keys that hold a "."
FlatSources ==
    SrcDocs \cup { Map(KAB :> Str("Hello")),
                   Map(KA :> Str("Hello") @@ KAB :> Str("Bye")) }

FlatInit ==
    /\ fn = Applied("none", "-")
    /\ arg1 \in FlatSources
    /\ arg2 \in Docs
    /\ out = Undef
    /\ RunIdle

\* the locale loop's body for the first locale: arg1 is the current
\* source, arg2 the target that is there
ApplyFlatLocale(previous) ==
    /\ fn.name = "none"
    /\ fn' = Applied("flatLocale", "flat")
    /\ out' = flatLocale(arg1, previous, arg2, LOCALE_CONFIGS[1].name)
    /\ UNCHANGED <<arg1, arg2>>
    /\ UNCHANGED runVars

FlatNext == \E previous \in FlatSources : ApplyFlatLocale(previous)

SpecFlat == FlatInit /\ [][FlatNext]_vars

---------------------------------------------------------------------------
(* C7 as stated.  Delta completeness and exactness: for all documents      *)
(* current and previous, getChangedStrings returns exactly the flat key    *)
(* paths of the string leaves of current whose value differs from the      *)
(* value at the same flat key path in previous (a missing path counts as   *)
(* different), each mapped to its current value.                           *)
C7_DeltaExactForAllDocuments ==
    fn.name = "getChangedStrings" =>
        FlatEntrySet(out) = StringLeafSet(arg1) \ LeafSet(arg2)

(* C7 as amended: the same, for documents none of whose keys is empty or   *)
(* holds a ".".                                                            *)
C7_DeltaExactForPlainKeys ==
    (fn.name = "getChangedStrings" /\ PlainKeys(arg1) /\ PlainKeys(arg2)) =>
        FlatEntrySet(out) = StringLeafSet(arg1) \ LeafSet(arg2)

\* a changed, an unchanged and a previous-only leaf at once
C7_Witness ==
    /\ fn.name = "getChangedStrings"
    /\ PlainKeys(arg1) /\ PlainKeys(arg2)
    /\ StringLeafSet(arg1) \cap LeafSet(arg2) # {}
    /\ FlatEntrySet(out) # {}
    /\ FlatPathsOf(arg2) \ FlatPathsOf(arg1) # {}

(* C8 as stated.  Deletion symmetry: after removeDeletedKeys(target,       *)
(* source) every flat key path that remains in target is a flat key path   *)
(* of source, be it the path of a leaf or of a mapping of source.          *)
C8_RemainingPathsAreSourcePaths ==
    fn.name = "removeDeletedKeys" => FlatPathsOf(out.obj) \subseteq NodePathsOf(arg2)

(* C9 as stated.  Round trip: for every document d of string leaves and    *)
(* mapping nodes only, unflattenObject(flattenObject(d)) equals d.         *)
C9_RoundTripForStringAndMappingDocuments ==
    (fn.name = "unflattenObject" /\ StringsAndMappingsOnly(arg1)) => out = arg1

(* C9 as amended: the round trip holds for every document of string leaves *)
(* and mapping nodes in which no nested mapping is empty and no key is     *)
(* empty or holds a ".".                                                   *)
C9_RoundTripForPlainDocuments ==
    (fn.name = "unflattenObject" /\ StringsAndMappingsOnly(arg1)
        /\ NoEmptyMapping(arg1) /\ PlainKeys(arg1)) => out = arg1

\* a nested string leaf went through flatten and unflatten
C9_Witness ==
    /\ fn.name = "unflattenObject"
    /\ StringsAndMappingsOnly(arg1) /\ NoEmptyMapping(arg1) /\ PlainKeys(arg1)
    /\ \E e \in LeafEntries(arg1) : Len(e[1]) = 2
    /\ Cardinality(LeafEntries(arg1)) = 2
    /\ out = arg1

---------------------------------------------------------------------------
(* What the statements about a run speak of *)

Done == pc = "done"

CurrentSource == repo[HeadCommit]

\* the flat key paths of the string leaves of a document
StringPathsOf(doc) == {e[1] : e \in StringLeafSet(doc)}

\* a file as a document: a file that is absent or unreadable holds nothing
AsDocument(file) == IF file.t = "map" THEN file ELSE EmptyObj

\* the value a document holds at a flat key path
ValueAt(doc, path) ==
    IF \E e \in LeafSet(doc) : e[1] = path
    THEN (CHOOSE e \in LeafSet(doc) : e[1] = path)[2]
    ELSE Undef

CallsOf(l) == {i \in 1..Len(calls) : calls[i].l = l}

---------------------------------------------------------------------------
(* C1 as stated.  After a run that completes without a fatal error, for    *)
(* every locale and every initial content of its target, the target holds  *)
(* every flat key path that is a string leaf of the current source and no  *)
(* flat key path that the current source lacks (git and the translation    *)
(* capability answering as usual).                                         *)
C1_TargetMirrorsSource ==
    (Done /\ faults = 0) => \A l \in Locs :
        /\ StringPathsOf(CurrentSource) \subseteq FlatPathsOf(AsDocument(files[l]))
        /\ FlatPathsOf(AsDocument(files[l])) \subseteq NodePathsOf(CurrentSource)

(* C2 as stated.  Idempotence: a run that follows a completed run with no  *)
(* change to the source issues no translation call and writes no target    *)
(* (git and the translation capability answering as usual).                *)
C2_SecondRunDoesNothing ==
    (repeat /\ faults = 0) => (calls = <<>> /\ written = {})

(* C3.  part_001: when the run ends, the Run State file has been written   *)
(* if and only if the run wrote at least one locale's target or no prior   *)
(* state was known at its start; written, it names the current commit;     *)
(* not written, it is as it was.                                           *)
C3_StateWrittenIffChangedOrFirstRun ==
    (variant = "state" /\ Done) =>
        /\ stateWritten <=> (written # {} \/ stateFile0.t # "rev")
        /\ stateWritten => stateFile = StateAt(HeadCommit)
        /\ ~stateWritten => stateFile = stateFile0

\* a later run with a known prior state wrote a target and moved the state on
C3_Witness ==
    /\ variant = "state" /\ Done
    /\ stateFile0.t = "rev"
    /\ written # {}
    /\ stateWritten
    /\ stateFile # stateFile0

\* the source text of call c is as it was at the commit the targets were
\* last brought in line with, and the locale's target held a translation
\* for its key
UnchangedAndTranslated(c) ==
    /\ synced # 0
    /\ <<c.k, c.text>> \in StringLeafSet(repo[synced])
    /\ c.k \in StringPathsOf(AsDocument(files0[c.l]))

(* C4 as stated.  No translation call is made for a (flat key path,        *)
(* locale) whose source text is unchanged since the last synchronized      *)
(* revision and for which the locale's target already holds a translation  *)
(* (in a run that could read the previous revision of the source file,    *)
(* git and the translation capability answering as usual).                 *)
C4_NoCallForUnchangedTranslatedKey ==
    (retrieved /\ faults = 0) => \A i \in 1..Len(calls) : ~UnchangedAndTranslated(calls[i])

(* C5.  Within one run translateString sends at most one request for each  *)
(* (flat key path, locale).                                                *)
C5_AtMostOneCallPerKeyAndLocale ==
    \A i, j \in 1..Len(calls) :
        (calls[i].l = calls[j].l /\ calls[i].k = calls[j].k) => i = j

\* two keys were translated for each of two locales
C5_Witness ==
    /\ Done
    /\ \A l \in Locs : Cardinality(CallsOf(l)) = 2

(* C6 as stated.  If a locale has no target at the start of a run, then    *)
(* after the run its target holds a value for every string leaf of the     *)
(* current source, whatever the Delta Map is (git and the translation      *)
(* capability answering as usual).                                         *)
C6_FreshLocaleFullyCovered ==
    (Done /\ faults = 0) => \A l \in Locs :
        files0[l] = Absent =>
            StringPathsOf(CurrentSource) \subseteq StringPathsOf(AsDocument(files[l]))

\* the request ended in an error or in an answer without a text
FailedCall(c) == c.o = Failure \/ c.o = NoText

\* of the requests for locale l exactly one failed and the others were
\* answered with a text
FailedOnce(l) ==
    /\ Cardinality({i \in CallsOf(l) : FailedCall(calls[i])}) = 1
    /\ \A i \in CallsOf(l) : calls[i].o.t # "pending"

(* C10.  If the request fails for exactly one of the keys of a locale, the *)
(* other keys of the locale hold the values translateString returned for   *)
(* them, every locale has been taken up, and the run does not end fatally  *)
(* (every target that exists being readable), unless the state file cannot *)
(* be written after the last locale.                                       *)
C10_FailureContained ==
    \A l \in Locs :
        (FailedOnce(l) /\ \A m \in Locs : files0[m] # Unparseable) =>
            /\ pc = "fatal" => (why = "state" /\ processed = Locs)
            /\ Done =>
                 /\ processed = Locs
                 /\ \A i \in CallsOf(l) :
                      ~FailedCall(calls[i]) =>
                          ValueAt(AsDocument(files[l]), calls[i].k) = calls[i].ret

\* one of two requests of the first locale failed and the run went on to the end
C10_Witness ==
    /\ Done
    /\ variant \in {"state", "before"}
    /\ FailedOnce(1)
    /\ Cardinality(CallsOf(1)) = 2
    /\ \E i \in CallsOf(1) :
         ~FailedCall(calls[i]) /\ ValueAt(AsDocument(files[1]), calls[i].k) = calls[i].ret
    /\ processed = Locs

(* C11 as stated.  For every kind of failure of a request (an error, or an *)
(* answer that carries no text) translateString returns the tagged         *)
(* placeholder that embeds the source text, and that placeholder is the    *)
(* value the locale's target holds for the key when the run has ended.     *)
C11_FailureYieldsPlaceholder ==
    \A i \in 1..Len(calls) :
        FailedCall(calls[i]) =>
            /\ calls[i].ret =
                   Placeholder(variant, calls[i].text.s, LOCALE_CONFIGS[calls[i].l].name)
            /\ Done => ValueAt(AsDocument(files[calls[i].l]), calls[i].k) = calls[i].ret

\* the flat key paths of the current source whose value is an empty or
\* whitespace-only string
BlankPaths == {e[1] : e \in {x \in StringLeafSet(CurrentSource) : IsBlank(x[2].s)}}

(* C12 as stated.  An empty or whitespace-only source value is never sent  *)
(* to the translation capability, and when the run has ended every         *)
(* locale's target, fresh or existing, holds the same string at its key    *)
(* (git and the translation capability answering as usual).                *)
C12_BlankNeverSentAndVerbatim ==
    /\ \A i \in 1..Len(calls) : ~IsBlank(calls[i].text.s)
    /\ (Done /\ faults = 0) => \A l \in Locs : \A k \in BlankPaths :
           ValueAt(AsDocument(files[l]), k) = ValueAt(CurrentSource, k)

\* the flat key paths of the current source that hold a string with text in it
TextPaths == StringPathsOf(CurrentSource) \ BlankPaths

(* C13 as stated.  When a locale's existing target cannot be read or       *)
(* parsed the run does not abort: that locale is handled as one without    *)
(* translations, a request is made for every string leaf of the current    *)
(* source that has text, and every other locale is processed too (git and  *)
(* the translation capability answering as usual).                         *)
C13_UnreadableTargetTreatedAsNew ==
    (Configured /\ (\E l \in Locs : files0[l] = Unparseable) /\ faults = 0) =>
        /\ pc # "fatal"
        /\ Done =>
              /\ processed = Locs
              /\ \A l \in Locs : files0[l] = Unparseable =>
                     TextPaths = {calls[i].k : i \in CallsOf(l)}

(* C14.  part_001: when the Run State file is there but corrupt,           *)
(* unreadable or without a revision, the run is a first run: it is not     *)
(* aborted for it (it stops only at a target that cannot be parsed or at a *)
(* state file that cannot be written), the                                 *)
(* previous snapshot is the empty document, the Delta Map is the set of    *)
(* all string leaves of the current source, these are the keys worked      *)
(* through for every locale, a request is made for each one that has text, *)
(* and the Run State is written at the end, naming the current commit.     *)
C14_CorruptStateIsFirstRun ==
    (Configured /\ variant = "state" /\ stateFile0 \in {Unparseable, NoRevision}) =>
        /\ pc = "fatal" => ((why = "target" /\ files[li] = Unparseable) \/ why = "state")
        /\ pc # "start" =>
              /\ isFirstRun
              /\ previousStrings = EmptyObj
              /\ FlatEntrySet(delta) = StringLeafSet(CurrentSource)
        /\ pc \in {"keys", "await"} => FlatKeySet(strings) = StringPathsOf(CurrentSource)
        /\ Done =>
              /\ stateWritten
              /\ stateFile = StateAt(HeadCommit)
              /\ \A l \in Locs : TextPaths = {calls[i].k : i \in CallsOf(l)}

C14_Witness ==
    /\ variant = "state" /\ Done
    /\ stateFile0 = Unparseable
    /\ files0[1].t = "map" /\ files0[1] # EmptyObj
    /\ CallsOf(1) # {}
    /\ stateWritten

(* C15.  When the source path or the translation credential is not set,   *)
(* the process ends with a non-zero exit code before any work: the source  *)
(* is not read, no previous snapshot is asked for, no locale is taken up,  *)
(* no request is made to the translation capability, and no target and no  *)
(* Run State is written.                                                   *)
C15_MissingConfigExitsBeforeWork ==
    (~env.SOURCE_YAML_PATH \/ ~env.GEMINI_API_KEY) =>
        /\ pc \in {"start", "fatal"}
        /\ pc = "fatal" => (why = "config" /\ ExitCode # 0)
        /\ currentStrings = EmptyObj /\ previousStrings = EmptyObj /\ ~retrieved
        /\ processed = {}
        /\ calls = <<>>
        /\ written = {} /\ files = files0
        /\ ~stateWritten /\ stateFile = stateFile0

C15_Witness ==
    /\ ~env.GEMINI_API_KEY /\ env.SOURCE_YAML_PATH
    /\ pc = "fatal" /\ why = "config"
    /\ files[1] = Absent
    /\ TextPaths # {}

(* C16 as stated.  When the run has ended and no locale needed a change,   *)
(* it has ended successfully, no target was written and no Run State file  *)
(* was written.                                                            *)
C16_NoChangeNoSideEffect ==
    (Done /\ ~anyModified) =>
        /\ ExitCode = 0
        /\ written = {} /\ files = files0
        /\ ~stateWritten /\ stateFile = stateFile0

(* C16, amended.  When the run has ended and no locale needed a change, it *)
(* has ended successfully and no target was written; the Run State file    *)
(* was written only by part_001 in a run that began with no known          *)
(* revision, and is otherwise as it was.                                   *)
C16_NoChangeNoTargetWritten ==
    (Done /\ ~anyModified) =>
        /\ ExitCode = 0
        /\ written = {} /\ files = files0
        /\ stateWritten <=> (variant = "state" /\ stateFile0.t # "rev")
        /\ ~stateWritten => stateFile = stateFile0

C16_Witness ==
    /\ Done /\ ~anyModified
    /\ variant = "state" /\ stateFile0.t = "rev"
    /\ processed = Locs
    /\ TextPaths # {}
    /\ \A l \in Locs : files0[l].t = "map"

\* the Delta Map of the run: the changed strings between the two snapshots
\* the run has read
DeltaMap == getChangedStrings(variant, currentStrings, previousStrings)

(* C17.  part_001, part_002 and the first script of copy_yaml.js: when the *)
(* run has ended, for a locale whose target existed, every flat key path   *)
(* of the current source that is not in the Delta Map has the value in the *)
(* target that it had before the run; and for every locale a request was   *)
(* made for every key of the Delta Map whose text is not blank.            *)
C17_UntouchedPreserved ==
    (Done /\ variant # "flat") => \A l \in Locs :
        /\ files0[l].t = "map" =>
              \A k \in FlatPathsOf(CurrentSource) \ FlatKeySet(DeltaMap) :
                  ValueAt(AsDocument(files[l]), k) = ValueAt(files0[l], k)
        /\ \A k \in FlatKeySet(DeltaMap) \cap TextPaths :
              \E i \in CallsOf(l) : calls[i].k = k

C17_Witness ==
    /\ Done /\ variant = "before"
    /\ FlatKeySet(DeltaMap) = {KB}
    /\ files0[1].t = "map"
    /\ ValueAt(files0[1], KAB) = Str("Hola")
    /\ ValueAt(files[1], KAB) = Str("Hola")
    /\ ValueAt(files[1], KB).t = "str"
    /\ 1 \in written

\* the keys for which locale l's requests of this run were made
KeysSent(l) == {calls[i].k : i \in CallsOf(l)}

(* C18 as stated.  part_001, part_002 and the first script of copy_yaml.js: *)
(* when the run has ended, the keys for which a request was made are, for  *)
(* a locale whose target existed, exactly the keys of the Delta Map        *)
(* between the current and the previous revision that hold text, and for a *)
(* locale without a target all string leaves of the current source that    *)
(* hold text (git and the translation capability answering as usual).      *)
C18_OnlyChangedStringsSent ==
    (Done /\ variant # "flat" /\ faults = 0) => \A l \in Locs :
        /\ files0[l].t = "map" => KeysSent(l) = FlatKeySet(DeltaMap) \cap TextPaths
        /\ files0[l] = Absent => KeysSent(l) = TextPaths

\* entry e of the current source has the text it had in the run before, and
\* locale l's target held, when this run began, the placeholder of a failed
\* translation of that text
PlaceholderKept(l, e) ==
    /\ run > 1
    /\ e \in StringLeafSet(repo[synced])
    /\ ~IsBlank(e[2].s)
    /\ ValueAt(AsDocument(files0[l]), e[1]) =
           Placeholder(variant, e[2].s, LOCALE_CONFIGS[l].name)

(* C19 as stated.  In the run that follows a run which wrote a placeholder *)
(* for a failed translation, a key whose source text has not changed is    *)
(* not requested again and the placeholder is still in the target when the *)
(* run has ended (the previous revision having been obtained).             *)
C19_PlaceholderNotRequestedAgain ==
    retrieved => \A l \in Locs : \A e \in StringLeafSet(CurrentSource) :
        PlaceholderKept(l, e) =>
            /\ e[1] \notin KeysSent(l)
            /\ Done => ValueAt(AsDocument(files[l]), e[1]) = ValueAt(AsDocument(files0[l]), e[1])

C21_WrittenOnlyIfContentDiffers ==
    (variant \in {"state", "before"} /\ faults = 0) =>
        \A l \in written : files[l] # files0[l]

\* the flat key paths of the previous snapshot that the current source no
\* longer has, as a leaf or as a mapping
DeletedPaths == FlatPathsOf(previousStrings) \ NodePathsOf(CurrentSource)

\* what the Deletion Reconciler answers for locale l's target of this run
ReconcilerVerdict(l) == removeDeletedKeys(AsDocument(files0[l]), currentStrings).hasDeleted

(* C22 as stated.  part_001: when the run has ended, no target that        *)
(* existed holds a key path of the previous source that the current source *)
(* lacks, and the Deletion Reconciler answered true for a target exactly   *)
(* when the target held such a key path (the previous revision having     *)
(* been obtained and the translation capability answering as usual).       *)
C22_ReconcilerMarksExactlyDeletions ==
    (variant = "state" /\ Done /\ retrieved /\ faults = 0) => \A l \in Locs :
        files0[l].t = "map" =>
            /\ DeletedPaths \cap FlatPathsOf(AsDocument(files[l])) = {}
            /\ ReconcilerVerdict(l) <=> (DeletedPaths \cap FlatPathsOf(files0[l]) # {})

\* the leaves of a document that are no strings, with the keys that lead to
\* them
NonStringLeaves(doc) == {e \in LeafEntries(doc) : e[2].t # "str"}

(* C23 as stated.  Leaves of the source that are no strings are inert: the *)
(* change detector and the collector of all strings give no key that is    *)
(* not the path of a string leaf, the flattened source holds every such    *)
(* leaf as it is and translateString makes no request for it, and the      *)
(* document translateObject returns holds every such leaf unchanged at its *)
(* place, an array still being the same array.                             *)
C23_NonStringLeavesInert ==
    /\ fn.name \in {"getChangedStrings", "getAllStringsFromObject"} =>
           FlatKeySet(out) \subseteq StringPathsOf(arg1)
    /\ fn.name = "flattenObject" =>
           \A e \in NonStringLeaves(arg1) :
               /\ FlatGet(out, FlatName(e[1])) = e[2]
               /\ ReturnsTextAsIs("flat", e[2])
    /\ fn.name = "translateObject" =>
           \A e \in NonStringLeaves(arg1) : ReduceGet(out, e[1]) = e[2]

(* C24 as stated.  When the later path a.b is written into a document that *)
(* holds a string, a number or an array at a, by setDeep or by             *)
(* unflattenObject, the result holds a mapping at a and the later value    *)
(* at a.b.                                                                 *)
C24_ConflictCoercedIntoMapping ==
    (fn.name \in {"setDeep", "unflattenObject"}
        /\ Get(arg1, KA).t \in {"str", "num", "arr"}) =>
            /\ Get(out, KA).t = "map"
            /\ Get(Get(out, KA), KB) = LaterValue

\* the requests that have not settled
Outstanding == {i \in 1..Len(calls) : calls[i].o.t = "pending"}

\* a step of the run that writes a target file or makes a request
SequentialStep ==
    /\ (pc # "done" /\ written' # written) =>
           /\ Outstanding = {}
           /\ written' = written \cup {li}
           /\ calls' = calls
           /\ li' = li + 1
    /\ Len(calls') > Len(calls) =>
           /\ Outstanding = {}
           /\ calls'[Len(calls')].l = li
           /\ li \notin written
           /\ 1..(li - 1) \subseteq processed

(* C25: the run is sequential.  At most one request is outstanding, and it *)
(* is the last one made, for the locale in hand; the requests are made in  *)
(* the order of the configured locales; a target file is written only when *)
(* no request is outstanding and the run then goes on to the next locale,  *)
(* so every request of a locale is made before that locale's write and no  *)
(* request of a later locale before it.                                    *)
C25_SequentialExecution ==
    /\ [](/\ Cardinality(Outstanding) <= 1
          /\ \A i \in Outstanding : i = Len(calls) /\ calls[i].l = li /\ pc = "await"
          /\ \A i, j \in 1..Len(calls) : i < j => calls[i].l <= calls[j].l
          /\ \A l \in written : \A i \in 1..Len(calls) :
                 (calls[i].l = l => i \notin Outstanding) /\ l < li)
    /\ [][SequentialStep]_vars

C25_Witness ==
    /\ written = {1}
    /\ li = 2
    /\ pc = "await"
    /\ \E i \in 1..Len(calls) : calls[i].l = 1

\* the run was ended by an error in the processing of a locale
FatalInLocale == pc = "fatal" /\ why \in {"target", "unflatten"}

(* C26: the Run State is written at most once in a run and only when every *)
(* configured locale has been processed: the state file changes only in a  *)
(* step taken after the loop over the locales by a run that has not        *)
(* written it yet; a run that was ended by an error in the processing of a *)
(* locale has not written it and the file is as it was when the run began. *)
C26_StateWrittenOnceAfterAllLocales ==
    /\ [](stateWritten => (processed = Locs /\ pc = "done"))
    /\ [](FatalInLocale => (~stateWritten /\ stateFile = stateFile0))
    /\ [][stateFile' # stateFile =>
             (~stateWritten /\ pc = "locale" /\ processed = Locs /\ Outstanding = {})]_vars

C26_Witness ==
    /\ variant = "state"
    /\ FatalInLocale
    /\ written # {}
    /\ ~stateWritten

\* The value a key of locale l comes to hold when the translation
\* capability answers as usual: what translateString returns for the text.
ResolvedAlone(l, text) == ResolvedBy(variant, LOCALE_CONFIGS[l].name, text)

\* the key loop of main for locale l over the entries of todo from the
\* i-th on, with finalLocaleStrings as it stands
RECURSIVE KeysAlone(_, _, _, _)
KeysAlone(l, todo, i, doc) ==
    IF i > Len(todo) THEN doc
    ELSE LET value == ResolvedAlone(l, todo[i].v)
             next == IF variant = "state" \/ ~StrictEq(value, ReduceGet(doc, Split(todo[i].k)))
                     THEN setDeep(variant, doc, todo[i].k, value)
                     ELSE doc
         IN  KeysAlone(l, todo, i + 1, next)

\* The document main writes for locale l as a function of the two
\* snapshots and of the locale's own file at the start of the run.
TargetAlone(l) ==
    CASE variant = "flat" ->
            DumpLoad(flatLocale(currentStrings, previousStrings, AsDocument(files0[l]),
                                LOCALE_CONFIGS[l].name).doc)
      [] files0[l] = Absent ->
            DumpLoad(KeysAlone(l, IF variant = "delta"
                                  THEN getChangedStrings(variant, currentStrings, previousStrings)
                                  ELSE getAllStringsFromObject(currentStrings),
                               1, EmptyObj))
      [] OTHER ->
            DumpLoad(KeysAlone(l, getChangedStrings(variant, currentStrings, previousStrings),
                               1, removeDeletedKeys(files0[l], currentStrings).obj))

\* a step taken while the locales are processed leaves what was loaded
SnapshotsKept ==
    pc \in {"locale", "keys", "await"} =>
        /\ currentStrings' = currentStrings
        /\ previousStrings' = previousStrings
        /\ delta' = delta

(* C27: while the locales are processed the current snapshot, the previous *)
(* snapshot and the Delta Map stay as they were loaded, and the document   *)
(* written for a locale is the one that follows from the two snapshots and *)
(* the locale's own document at the start of the run alone (the            *)
(* translation capability and git answering as usual), whatever was done   *)
(* for the locales before it.                                              *)
C27_LocalesIndependent ==
    /\ []((Done /\ faults = 0) => \A l \in written : files[l] = TargetAlone(l))
    /\ [][SnapshotsKept]_vars

C27_Witness ==
    /\ Done
    /\ faults = 0
    /\ written = Locs
    /\ files0[1] # files0[2]
    /\ files0[2].t = "map"
    /\ calls # <<>>

\* a step that puts a revision into the state file puts in the commit the
\* run works on
OnlyHeadStored ==
    (stateFile' # stateFile /\ stateFile'.t = "rev") =>
        (stateFile' = [t |-> "rev", rev |-> HeadCommit] /\ stateWritten')

(* C28: whenever a run of part_001 has written the Run State, the file     *)
(* names the commit the run works on, whose content is the current         *)
(* snapshot of the run; no step stores another revision; and the run that  *)
(* follows asks for that commit and, git show succeeding, has as previous  *)
(* snapshot the content the run before it had as current snapshot.         *)
C28_StateNamesProcessedRevision ==
    /\ [](stateWritten =>
             /\ stateFile = [t |-> "rev", rev |-> HeadCommit]
             /\ currentStrings = repo[stateFile.rev])
    /\ []((variant = "state" /\ run > 1 /\ stateFile0 = [t |-> "rev", rev |-> synced]
              /\ pc \notin {"start"} /\ Configured) =>
             /\ previousCommitSha = synced
             /\ retrieved => previousStrings = repo[synced])
    /\ [][OnlyHeadStored]_vars

C28_Witness ==
    /\ variant = "state"
    /\ run = 2
    /\ stateFile0 = [t |-> "rev", rev |-> synced]
    /\ stateFile0 # stateFile
    /\ HeadCommit > synced
    /\ retrieved
    /\ previousStrings # EmptyObj
    /\ stateWritten

\* the run was ended by the failure of the write of the state file
PersistFailed == pc = "fatal" /\ why = "state"

(* C29 as stated.  When the write of the Run State has failed in a run     *)
(* that began with a revision stored, the run has ended with a non-zero    *)
(* exit code, it does not count as having written the state, and the state *)
(* file holds what it held when the run began: the revision stored before  *)
(* is still there.                                                         *)
C29_PersistFailureFatalAndStateKept ==
    (PersistFailed /\ stateFile0.t = "rev") =>
        /\ ExitCode # 0
        /\ ~stateWritten
        /\ stateFile = stateFile0

\* the flat key paths of a document
FlatKeysOfDoc(doc) == FlatKeySet(flattenObject(doc))

\* the keys of the current source whose existing translation is reused
ReusedKeys ==
    LET flatCurrent == flattenObject(arg1) IN
    {flatCurrent[i].k : i \in {j \in 1..Len(flatCurrent) :
        ReusedKey(flatCurrent[j], flattenObject(out.previous), flattenObject(arg2))}}

(* C30 as stated.  The flatten-based script: the target is rewritten       *)
(* whenever the flat key set of the existing document differs from that of *)
(* the current source; a document that is written has exactly the flat key *)
(* set of the current source; and every reused key holds in it the value   *)
(* the existing document had.                                              *)
C30_FlatKeySetMirrored ==
    fn.name = "flatLocale" =>
        /\ FlatKeysOfDoc(arg2) # FlatKeysOfDoc(arg1) => out.changed
        /\ out.changed =>
              /\ out.doc.t = "map"
              /\ FlatKeysOfDoc(DumpLoad(out.doc)) = FlatKeysOfDoc(arg1)
              /\ \A k \in ReusedKeys :
                     FlatGet(flattenObject(DumpLoad(out.doc)), k) = FlatGet(flattenObject(arg2), k)

(* C30 as amended: the same for a current source none of whose keys is     *)
(* empty or holds a ".".                                                   *)
C30_FlatKeySetMirroredForPlainKeys ==
    (fn.name = "flatLocale" /\ PlainKeys(arg1)) =>
        /\ FlatKeysOfDoc(arg2) # FlatKeysOfDoc(arg1) => out.changed
        /\ out.changed =>
              /\ out.doc.t = "map"
              /\ FlatKeysOfDoc(DumpLoad(out.doc)) = FlatKeysOfDoc(arg1)
              /\ \A k \in ReusedKeys :
                     FlatGet(flattenObject(DumpLoad(out.doc)), k) = FlatGet(flattenObject(arg2), k)

\* the existing document holds a key the source has not and lacks one it
\* has, the two having the same number of keys; another key is reused
C30_Witness ==
    /\ fn.name = "flatLocale"
    /\ PlainKeys(arg1)
    /\ Len(flattenObject(arg1)) = Len(flattenObject(arg2))
    /\ FlatKeysOfDoc(arg2) \ FlatKeysOfDoc(arg1) # {}
    /\ ReusedKeys # {}
    /\ out.changed

=============================================================================
